---- MODULE Spec2Model ----
(***************************************************************************)
(* Model of src/main.py: the FastAPI translation service.                  *)
(*                                                                         *)
(* One process, one asyncio event loop.  `translate` is an `async def`     *)
(* handler, so each request is a coroutine that runs on the event loop     *)
(* until it awaits (line 127), returns or raises.  The model call runs in  *)
(* a worker thread (run_in_threadpool).                                    *)
(*                                                                         *)
(* Strings whose content the code inspects are sequences:                  *)
(*   - a language code is a sequence of one-character strings, so that     *)
(*     str.lower() is computed character by character;                     *)
(*   - a model identifier is a sequence of tokens, each token either the   *)
(*     blank SP or a run of non-blank characters, so that str.strip() is   *)
(*     computed by dropping leading and trailing blanks.                   *)
(* Python's None for an optional string is the sentinel sequence None.     *)
(* Texts and translations are opaque and are plain strings.                *)
(***************************************************************************)
EXTENDS Integers, Sequences, FiniteSets, TLC

\* ---------------------------------------------------------------- bounds
MaxReq == 2         \* number of POST /translate requests in a run
MaxElapsed == 1     \* a request's later clock readings are 0..MaxElapsed
                    \* ticks after its first one

Reqs == 1..MaxReq

\* Time is measured, per request, from the request's first reading of the
\* clock: that reading is tick 0, a later one is 0..MaxElapsed ticks after it.
FirstReading(tz) == [t |-> 0, tz |-> tz]
LaterReading(e, tz) == [t |-> e, tz |-> tz]
Elapsed == 0..MaxElapsed

\* ------------------------------------------------------------- constants
None == <<"None">>
SP == " "

DEFAULT_MODEL_NAME == <<"m2m_100_418M">>
MODEL_NAMES == {<<"m2m_100_418M">>, <<"m2m_100_1.2B">>}

EN == <<"e", "n">>

\* ------------------------------------------------------ request inputs
\* TranslateRequest.model: absent, empty, a supported identifier, a
\* supported identifier padded with blanks, and an unsupported one.
ModelInputs ==
    { None, <<>>, <<"m2m_100_1.2B">>, <<SP, "m2m_100_418M", SP>>,
      <<"not-a-real-model">> }

SourceInputs == { None, <<>>, <<"E", "N">>, <<"f", "r">> }
TargetInputs == { None, <<>>, <<"E", "n">>, <<"F", "R">> }
Texts == { "Bonjour le monde" }

\* What langdetect.detect(text) can do: return a code or raise
\* LangDetectException.
LangDetectException == <<"LangDetectException">>
DetectOutcomes == { EN, <<"f", "r">>, LangDetectException }

\* What EasyNMT.translate can do: return a string or raise an Exception.
Outputs == { "Hello world" }
Causes == { "RuntimeError" }

\* --------------------------------------------------------- pure helpers
\* Python truthiness of an optional string: None and "" are falsy.
Truthy(s) == s # None /\ s # <<>>

LowerChar(c) ==
    CASE c = "E" -> "e"
      [] c = "N" -> "n"
      [] c = "F" -> "f"
      [] c = "R" -> "r"
      [] OTHER -> c

\* Variant: the code is kept as given.
LowerIdentity(s) == s

\* str.lower()
Lower(s) == [i \in 1..Len(s) |-> LowerChar(s[i])]

RECURSIVE LStrip(_)
LStrip(s) == IF s # <<>> /\ Head(s) = SP THEN LStrip(Tail(s)) ELSE s

RECURSIVE RStrip(_)
RStrip(s) ==
    IF s # <<>> /\ s[Len(s)] = SP THEN RStrip(SubSeq(s, 1, Len(s) - 1)) ELSE s

\* str.strip()
Strip(s) == RStrip(LStrip(s))

\* line 64: (req.model or DEFAULT_MODEL_NAME).strip()
ModelNameOf(m) == Strip(IF Truthy(m) THEN m ELSE DEFAULT_MODEL_NAME)

\* lines 68-69: x.lower() if x else None
Normalize(x) == IF Truthy(x) THEN Lower(x) ELSE None

\* ------------------------------------------------------------ the state
VARIABLES
    cache,          \* _MODEL_CACHE: a function from its keys to their handles
    loads,          \* history: the handles that EasyNMT(...) has constructed
    loop,           \* the coroutine the event loop is running, 0 when none
    pc,             \* each request's position in translate()
    req,            \* the TranslateRequest of each request
    model_name,     \* local model_name
    chosen_model,   \* local chosen_model
    source_lang,    \* local source_lang
    target_lang,    \* local target_lang
    detected_lang,  \* what detect() did for this request, None when not called
    started_at,     \* local started_at
    job,            \* the run_in_threadpool call of each request
    resp,           \* the HTTP response of each request
    detectCalls,    \* history: detect() calls per request
    translateCalls, \* history: chosen_model.translate() calls per request
    root_resp       \* the response of GET / when the last step answered one

vars == << cache, loads, loop, pc, req, model_name, chosen_model, source_lang,
           target_lang, detected_lang, started_at, job, resp, detectCalls,
           translateCalls, root_resp >>

NoHandle == [name |-> None, loaded_by |-> 0]
NoReq == [text |-> "", source_lang |-> None, target_lang |-> None, model |-> None]
NoTime == [t |-> 0, tz |-> "unset"]
NoJob == [state |-> "none", handle |-> NoHandle, text |-> "", source_lang |-> None,
          target_lang |-> None, beam_size |-> 0, result |-> ""]
NoResp == [status |-> 0, kind |-> "none"]
NoRoot == [status |-> "none", default_model |-> None, loaded_models |-> << >>]

Init ==
    /\ cache = << >>
    /\ loads = {}
    /\ loop = 0
    /\ pc = [r \in Reqs |-> "idle"]
    /\ req = [r \in Reqs |-> NoReq]
    /\ model_name = [r \in Reqs |-> None]
    /\ chosen_model = [r \in Reqs |-> NoHandle]
    /\ source_lang = [r \in Reqs |-> None]
    /\ target_lang = [r \in Reqs |-> None]
    /\ detected_lang = [r \in Reqs |-> None]
    /\ started_at = [r \in Reqs |-> NoTime]
    /\ job = [r \in Reqs |-> NoJob]
    /\ resp = [r \in Reqs |-> NoResp]
    /\ detectCalls = [r \in Reqs |-> 0]
    /\ translateCalls = [r \in Reqs |-> 0]
    /\ root_resp = NoRoot

\* ------------------------------------------------------------ responses
UnknownModel(name) ==
    [status |-> 400, kind |-> "UnknownModel", detail |-> name]

\* An exception that no handler catches: the framework answers 500.
Unhandled(what) ==
    [status |-> 500, kind |-> "InternalServerError", detail |-> what]

\* Variant: the exception of the model call is not wrapped.
TranslationFailedRaw(e) ==
    [status |-> 500, kind |-> "InternalServerError", detail |-> e]

\* line 130
TranslationFailed(e) ==
    [status |-> 500, kind |-> "TranslationFailed", detail |-> e]

\* lines 103-112
PassthroughEnvelope(text, name, src, at) ==
    [status |-> 200, kind |-> "ok", translation |-> text, model |-> name,
     source_lang |-> src, target_lang |-> src, started_at |-> at,
     finished_at |-> at, duration_seconds |-> 0, note |-> TRUE]

\* lines 146-154
SuccessEnvelope(out, name, src, tgt, at, fin, d) ==
    [status |-> 200, kind |-> "ok", translation |-> out, model |-> name,
     source_lang |-> src, target_lang |-> tgt, started_at |-> at,
     finished_at |-> fin, duration_seconds |-> d, note |-> FALSE]

\* ------------------------------------------------------------ scheduling
\* Variant: the handler is a plain `def`, which the framework runs in a
\* worker thread, so steps of different requests interleave freely.
ScheduledInThreads(r) == TRUE

\* A coroutine's next step can run when the event loop is running it, or is
\* running nothing: translate is `async def`, so it keeps the loop from its
\* start to its await, return or raise.
Scheduled(r) == loop \in {0, r}

\* -------------------------------------------------------------- actions
\* A POST /translate request arrives; requests are numbered by arrival.
Receive(r) ==
    /\ pc[r] = "idle"
    /\ root_resp' = NoRoot
    /\ \A q \in Reqs : q < r => pc[q] # "idle"
    /\ \E t \in Texts, s \in SourceInputs, g \in TargetInputs, m \in ModelInputs :
          req' = [req EXCEPT ![r] =
                     [text |-> t, source_lang |-> s, target_lang |-> g, model |-> m]]
    /\ pc' = [pc EXCEPT ![r] = "start"]
    /\ UNCHANGED << cache, loads, loop, model_name, chosen_model, source_lang,
                    target_lang, detected_lang, started_at, job, resp,
                    detectCalls, translateCalls >>

\* ---- get_model, lines 27-45
\* Variant: every identifier passes validation.
IsKnownModelAlways(name) == TRUE

\* line 31: model_name in MODEL_NAMES
IsKnownModel(name) == name \in MODEL_NAMES

\* Variant: the lookup never finds the entry.
CacheLookupMiss(c, n) == NoHandle

\* line 37: _MODEL_CACHE.get(model_name), None for a missing key
CacheLookup(c, n) == IF n \in DOMAIN c THEN c[n] ELSE NoHandle

\* line 43: EasyNMT(model_name, device="cuda") builds a new object; a request
\* constructs at most one, so (identifier, request) names the object.
NewHandle(n, r) == [name |-> n, loaded_by |-> r]

\* Variant: the handle is returned without being stored.
CacheInsertSkipped(c, n, m) == c

\* Variant: the cache keeps the newest entry only.
CacheInsertEvicting(c, n, m) == [k \in {n} |-> m]

\* line 44: _MODEL_CACHE[model_name] = m
CacheInsert(c, n, m) ==
    [k \in DOMAIN c \cup {n} |-> IF k = n THEN m ELSE c[k]]

\* Variant: `return cached` in place of `return m`.
LoadReturnCached(m, cached) == cached

\* line 45: return m
LoadReturn(m, cached) == m

\* Variant of GetModelCheck: the membership test comes after the load, so an
\* unsupported identifier is constructed and stored before it is rejected.
GetModelCheckLate(r) ==
    /\ pc[r] = "start"
    /\ root_resp' = NoRoot
    /\ Scheduled(r)
    /\ LET name == ModelNameOf(req[r].model) IN
          /\ model_name' = [model_name EXCEPT ![r] = name]
          /\ IF ~IsKnownModel(name)
                THEN /\ resp' = [resp EXCEPT ![r] = UnknownModel(name)]
                     /\ cache' = CacheInsert(cache, name, NewHandle(name, r))
                     /\ loads' = loads \cup {NewHandle(name, r)}
                     /\ pc' = [pc EXCEPT ![r] = "done"]
                     /\ loop' = 0
                     /\ UNCHANGED chosen_model
                ELSE IF CacheLookup(cache, name) # NoHandle
                THEN /\ chosen_model' =
                            [chosen_model EXCEPT ![r] = CacheLookup(cache, name)]
                     /\ pc' = [pc EXCEPT ![r] = "resolve"]
                     /\ loop' = r
                     /\ UNCHANGED << resp, cache, loads >>
                ELSE /\ pc' = [pc EXCEPT ![r] = "load"]
                     /\ loop' = r
                     /\ UNCHANGED << resp, chosen_model, cache, loads >>
    /\ UNCHANGED << req, source_lang, target_lang, detected_lang,
                    started_at, job, detectCalls, translateCalls >>

\* lines 64-65 with get_model's lines 31-39: the identifier is computed and
\* validated, and the cache is consulted.
GetModelCheck(r) ==
    /\ pc[r] = "start"
    /\ root_resp' = NoRoot
    /\ Scheduled(r)
    /\ LET name == ModelNameOf(req[r].model) IN
          /\ model_name' = [model_name EXCEPT ![r] = name]
          /\ IF ~IsKnownModel(name)
                THEN /\ resp' = [resp EXCEPT ![r] = UnknownModel(name)]
                     /\ pc' = [pc EXCEPT ![r] = "done"]
                     /\ loop' = 0
                     /\ UNCHANGED chosen_model
                ELSE IF CacheLookup(cache, name) # NoHandle
                THEN /\ chosen_model' =
                            [chosen_model EXCEPT ![r] = CacheLookup(cache, name)]
                     /\ pc' = [pc EXCEPT ![r] = "resolve"]
                     /\ loop' = r
                     /\ UNCHANGED resp
                ELSE /\ pc' = [pc EXCEPT ![r] = "load"]
                     /\ loop' = r
                     /\ UNCHANGED << resp, chosen_model >>
    /\ UNCHANGED << cache, loads, req, source_lang, target_lang, detected_lang,
                    started_at, job, detectCalls, translateCalls >>

\* Variant: the key is entered before the constructor is called, and the
\* empty entry stays when the constructor raises.
CacheAfterRaisePartial(c, n) == CacheInsert(c, n, [name |-> n, loaded_by |-> 0])

\* lines 43-44: a raise at line 43 skips the assignment of line 44.
CacheAfterRaise(c, n) == c

\* lines 41-45: the constructor returns and the handle is stored and
\* returned, or the constructor raises and the exception leaves get_model
\* and translate uncaught.
LoadModel(r) ==
    /\ pc[r] = "load"
    /\ root_resp' = NoRoot
    /\ Scheduled(r)
    /\ \/ LET m == NewHandle(model_name[r], r) IN
             /\ cache' = CacheInsert(cache, model_name[r], m)
             /\ loads' = loads \cup {m}
             /\ chosen_model' = [chosen_model EXCEPT ![r] = LoadReturn(m, NoHandle)]
             /\ pc' = [pc EXCEPT ![r] = "resolve"]
             /\ loop' = r
             /\ UNCHANGED resp
       \/ /\ resp' = [resp EXCEPT ![r] = Unhandled("EasyNMT")]
          /\ pc' = [pc EXCEPT ![r] = "done"]
          /\ loop' = 0
          /\ cache' = CacheAfterRaise(cache, model_name[r])
          /\ UNCHANGED << loads, chosen_model >>
    /\ UNCHANGED << req, model_name, source_lang, target_lang, detected_lang,
                    started_at, job, detectCalls, translateCalls >>

\* ---- language resolution, lines 68-112
\* Variant: no fallback for a detector that raised.
DetectedSourceNoFallback(d) == Lower(d)

\* line 80 with the except of line 81 and line 84:
\* (detected_lang or "en").lower(), detected_lang staying None on a raise.
DetectedSource(d) == Lower(IF d = LangDetectException THEN EN ELSE d)

\* Variant: English to English is echoed even when the target is named.
IsPassthroughSameLanguage(src, tgt) == src = EN /\ (~Truthy(tgt) \/ tgt = EN)

\* Variant: an English source without target is translated like any other.
IsPassthroughNever(src, tgt) == FALSE

\* lines 88-90: the request is echoed when no target was given and the
\* source is English.
IsPassthrough(src, tgt) == ~Truthy(tgt) /\ src = EN

\* Variant: the default of line 91 is missing.
DefaultTargetMissing(src, tgt) == tgt

\* lines 88-91: the target the model is called with.
DefaultTarget(src, tgt) == IF Truthy(tgt) THEN tgt ELSE EN

\* Variant: detection is skipped when the caller names a target.
NeedsDetectionNoTarget(s0, t0) == ~Truthy(s0) /\ ~Truthy(t0)

\* lines 72-76: detect() is reached in case B when no source is given.
NeedsDetection(s0, t0) == ~(Truthy(s0) /\ Truthy(t0)) /\ ~Truthy(s0)

\* lines 68-112: normalisation, detection when the source is missing, the
\* default target, and the passthrough response.  d is what detect() does;
\* it is read only when detect() is called, and is pinned otherwise.
ResolveLanguages(r) ==
    /\ pc[r] = "resolve"
    /\ root_resp' = NoRoot
    /\ Scheduled(r)
    /\ LET s0 == Normalize(req[r].source_lang)
           t0 == Normalize(req[r].target_lang)
       IN  \E d \in DetectOutcomes :
             LET detect == NeedsDetection(s0, t0)
                 src == IF detect THEN DetectedSource(d) ELSE s0
                 echo == ~(Truthy(s0) /\ Truthy(t0)) /\ IsPassthrough(src, t0)
                 at == FirstReading("naive")
             IN  /\ detect \/ d = EN
                 /\ detected_lang' =
                        [detected_lang EXCEPT ![r] = IF detect THEN d ELSE None]
                 /\ detectCalls' =
                        [detectCalls EXCEPT ![r] = IF detect THEN @ + 1 ELSE @]
                 /\ source_lang' = [source_lang EXCEPT ![r] = src]
                 /\ IF echo
                       THEN /\ target_lang' = [target_lang EXCEPT ![r] = t0]
                            /\ started_at' = [started_at EXCEPT ![r] = at]
                            /\ resp' = [resp EXCEPT ![r] =
                                   PassthroughEnvelope(req[r].text, model_name[r], src, at)]
                            /\ pc' = [pc EXCEPT ![r] = "done"]
                            /\ loop' = 0
                       ELSE /\ target_lang' =
                                [target_lang EXCEPT ![r] = DefaultTarget(src, t0)]
                            /\ pc' = [pc EXCEPT ![r] = "offload"]
                            /\ loop' = r
                            /\ UNCHANGED << started_at, resp >>
    /\ UNCHANGED << cache, loads, req, model_name, chosen_model, job,
                    translateCalls >>

\* ---- the translation call, lines 115-154
\* Variant: the model is called in the coroutine itself, which keeps the
\* event loop until the call ends.
AwaitBlocking(r) == r

\* line 127: `await run_in_threadpool(...)` suspends the coroutine and the
\* event loop is free until the thread has finished.
AwaitYield(r) == 0

\* lines 115-127 up to the await: the start time is read and _do_translate
\* is handed to the thread pool; the coroutine suspends.
Offload(r) ==
    /\ pc[r] = "offload"
    /\ root_resp' = NoRoot
    /\ Scheduled(r)
    /\ started_at' = [started_at EXCEPT ![r] = FirstReading("utc")]
    /\ job' = [job EXCEPT ![r] =
                  [state |-> "queued", handle |-> chosen_model[r],
                   text |-> req[r].text, source_lang |-> source_lang[r],
                   target_lang |-> target_lang[r], beam_size |-> 1, result |-> ""]]
    /\ pc' = [pc EXCEPT ![r] = "awaiting"]
    /\ loop' = AwaitYield(r)
    /\ UNCHANGED << cache, loads, req, model_name, chosen_model, source_lang,
                    target_lang, detected_lang, resp, detectCalls, translateCalls >>

\* lines 119-125: a worker thread enters chosen_model.translate.
ThreadRun(r) ==
    /\ job[r].state = "queued"
    /\ root_resp' = NoRoot
    /\ job' = [job EXCEPT ![r].state = "running"]
    /\ translateCalls' = [translateCalls EXCEPT ![r] = @ + 1]
    /\ UNCHANGED << cache, loads, loop, pc, req, model_name, chosen_model,
                    source_lang, target_lang, detected_lang, started_at, resp,
                    detectCalls >>

\* lines 120-125: chosen_model.translate returns a string or raises.
ThreadFinish(r) ==
    /\ job[r].state = "running"
    /\ root_resp' = NoRoot
    /\ \/ \E out \in Outputs :
             job' = [job EXCEPT ![r].state = "returned", ![r].result = out]
       \/ \E e \in Causes :
             job' = [job EXCEPT ![r].state = "raised", ![r].result = e]
    /\ UNCHANGED << cache, loads, loop, pc, req, model_name, chosen_model,
                    source_lang, target_lang, detected_lang, started_at, resp,
                    detectCalls, translateCalls >>

\* lines 127-154 after the await: the coroutine resumes with the thread's
\* result; a raise becomes the HTTPException of line 130, a return becomes
\* the envelope.  The call took e ticks: the wall clock of finished_at and
\* the perf_counter of t1 have both advanced by e since lines 115-116.
Resume(r) ==
    /\ pc[r] = "awaiting"
    /\ root_resp' = NoRoot
    /\ job[r].state \in {"returned", "raised"}
    /\ Scheduled(r)
    /\ IF job[r].state = "raised"
          THEN resp' = [resp EXCEPT ![r] = TranslationFailed(job[r].result)]
          ELSE \E e \in Elapsed :
                  resp' = [resp EXCEPT ![r] =
                      SuccessEnvelope(job[r].result, model_name[r], source_lang[r],
                                      target_lang[r], started_at[r],
                                      LaterReading(e, "utc"), e)]
    /\ pc' = [pc EXCEPT ![r] = "done"]
    /\ loop' = 0
    /\ UNCHANGED << cache, loads, req, model_name, chosen_model, source_lang,
                    target_lang, detected_lang, started_at, job, detectCalls,
                    translateCalls >>

\* ---- GET /, lines 156-159
\* Python orders strings by code point: the identifiers agree up to
\* "m2m_100_" and then "1" (U+0031) comes before "4" (U+0034).
Ascending == << <<"m2m_100_1.2B">>, <<"m2m_100_418M">> >>
Descending == << <<"m2m_100_418M">>, <<"m2m_100_1.2B">> >>

\* Variant: the keys in descending order.
SortedReversed(S) == SelectSeq(Descending, LAMBDA n : n \in S)

\* line 159: sorted(_MODEL_CACHE.keys())
Sorted(S) == SelectSeq(Ascending, LAMBDA n : n \in S)

\* lines 157-159: root is `async def` without an await, so it runs from start
\* to end when the event loop is running nothing else.
Root ==
    /\ Scheduled(0)
    /\ root_resp' = [status |-> "ok", default_model |-> DEFAULT_MODEL_NAME,
                     loaded_models |-> Sorted(DOMAIN cache)]
    /\ UNCHANGED << cache, loads, loop, pc, req, model_name, chosen_model,
                    source_lang, target_lang, detected_lang, started_at, job,
                    resp, detectCalls, translateCalls >>

Next ==
    \/ \E r \in Reqs :
          \/ Receive(r)
          \/ GetModelCheck(r)
          \/ LoadModel(r)
          \/ ResolveLanguages(r)
          \/ Offload(r)
          \/ ThreadRun(r)
          \/ ThreadFinish(r)
          \/ Resume(r)
    \/ Root

Spec == Init /\ [][Next]_vars

\* The event loop runs a ready coroutine until it suspends or ends, and the
\* EasyNMT constructor returns or raises.  Nothing is assumed of the worker
\* threads: a translation call has no timeout.
LoopStep(r) ==
    GetModelCheck(r) \/ LoadModel(r) \/ ResolveLanguages(r) \/ Offload(r) \/ Resume(r)

\* A burst of get_model callers: get_model reads only the identifier, so the
\* requests of the burst leave both languages out and differ in the model
\* field alone.
BurstReceive(r) ==
    /\ Receive(r)
    /\ req'[r].source_lang = None
    /\ req'[r].target_lang = None

BurstNext ==
    \/ \E r \in Reqs :
          \/ BurstReceive(r)
          \/ GetModelCheck(r)
          \/ LoadModel(r)
          \/ ResolveLanguages(r)
          \/ Offload(r)
          \/ ThreadRun(r)
          \/ ThreadFinish(r)
          \/ Resume(r)
    \/ Root

FairSpec == Init /\ [][BurstNext]_vars /\ \A r \in Reqs : WF_vars(LoopStep(r))

\* ================================================================ claims
HasHandle(r) == chosen_model[r] # NoHandle

\* The cache entry of an identifier, NoHandle when it has none.
Cached(n) == IF n \in DOMAIN cache THEN cache[n] ELSE NoHandle

\* The number of handles constructed for an identifier so far.
LoadCount(ls, n) == Cardinality({m \in ls : m.name = n})

\* C1: concurrent first-time requests for one identifier leave exactly one
\* retained handle: an identifier is loaded at most once, and every request
\* that holds or has passed on a handle holds the one in the cache.
C1_OneRetainedHandle ==
    /\ \A n \in MODEL_NAMES : LoadCount(loads, n) <= 1
    /\ \A n \in MODEL_NAMES : (LoadCount(loads, n) = 1) <=> (Cached(n) # NoHandle)
    /\ \A r \in Reqs :
          /\ HasHandle(r) => chosen_model[r] = Cached(model_name[r])
          /\ job[r].state # "none" =>
                 job[r].handle # NoHandle /\ job[r].handle = Cached(model_name[r])

\* Both requests had arrived before either looked the identifier up; the one
\* that arrived second loaded it and the first one uses that same handle.
C1_Witness ==
    /\ pc[1] = "awaiting" /\ pc[2] = "awaiting"
    /\ model_name[1] = model_name[2]
    /\ chosen_model[1] = Cached(model_name[1])
    /\ chosen_model[2] = Cached(model_name[1])
    /\ chosen_model[1].loaded_by = 2

\* C2: under fair scheduling every caller of get_model with a supported
\* identifier gets a handle, unless the constructor call it made itself
\* raised; the race on the cache costs no caller its handle.
C2_CallersGetHandle ==
    \A r \in Reqs :
        (pc[r] = "start" /\ ModelNameOf(req[r].model) \in MODEL_NAMES)
            ~> (HasHandle(r) \/ resp[r] = Unhandled("EasyNMT"))

\* The caller that arrived first finds in the cache the handle that the
\* caller that arrived second loaded, while that one awaits its translation.
C2_Witness ==
    /\ pc[1] = "resolve" /\ pc[2] = "awaiting"
    /\ model_name[1] = model_name[2]
    /\ HasHandle(1)
    /\ chosen_model[1].loaded_by = 2

\* ---- what the claims say of one request
Supplied(x) == x # None /\ x # <<>>
Absent(x) == ~Supplied(x)

\* y is x with its capital letters replaced by small ones.
SmallLetters == {"e", "n", "f", "r"}
CasePairs == {<<"E", "e">>, <<"N", "n">>, <<"F", "f">>, <<"R", "r">>}
IsLowercased(x, y) ==
    /\ Len(x) = Len(y)
    /\ \A i \in 1..Len(x) :
          \/ <<x[i], y[i]>> \in CasePairs
          \/ x[i] = y[i] /\ x[i] \in SmallLetters

Ended(r) == pc[r] = "done"
IsSuccess(r) == resp[r].status = 200 /\ resp[r].kind = "ok"
IsEcho(r) == IsSuccess(r) /\ resp[r].note
Invoked(r) == job[r].state # "none"

\* C3 as stated: a request whose model field is a string outside
\* MODEL_NAMES is never given a handle and ends in UnknownModel.
C3_Original ==
    \A r \in Reqs :
        (req[r] # NoReq /\ req[r].model # None /\ req[r].model \notin MODEL_NAMES)
            => /\ pc[r] \in {"start", "done"}
               /\ ~HasHandle(r)
               /\ Ended(r) => resp[r].kind = "UnknownModel"

\* C3 as amended: a request whose model field is non-empty and, with the
\* blanks around it removed, outside MODEL_NAMES gets no handle, makes no
\* detection or translation call, and ends in UnknownModel (400).
C3_UnknownModelRejected ==
    \A r \in Reqs :
        ( /\ req[r] # NoReq
          /\ Supplied(req[r].model)
          /\ \A i \in 1..Len(req[r].model), j \in 1..Len(req[r].model) :
                ( /\ \A k \in 1..(i - 1) : req[r].model[k] = SP
                  /\ \A k \in (j + 1)..Len(req[r].model) : req[r].model[k] = SP )
                => SubSeq(req[r].model, i, j) \notin MODEL_NAMES )
        => /\ pc[r] \in {"start", "done"}
           /\ ~HasHandle(r) /\ ~Invoked(r) /\ detectCalls[r] = 0
           /\ Ended(r) => resp[r].status = 400 /\ resp[r].kind = "UnknownModel"

\* An unsupported identifier is rejected while the other request's identifier
\* is in the cache.
C3_Witness ==
    /\ Ended(2) /\ resp[2].kind = "UnknownModel"
    /\ req[2].model = <<"not-a-real-model">>
    /\ DOMAIN cache # {}
    /\ Supplied(req[2].source_lang) /\ Supplied(req[2].target_lang)

\* C4: every request ends in a success envelope, an UnknownModel error or a
\* TranslationFailed error.
C4_ThreeOutcomes ==
    \A r \in Reqs :
        Ended(r) =>
            \/ IsSuccess(r)
            \/ resp[r].status = 400 /\ resp[r].kind = "UnknownModel"
            \/ resp[r].status = 500 /\ resp[r].kind = "TranslationFailed"

\* C5: with both languages supplied no detection call is made, and the
\* languages resolved, passed to the model and returned are the supplied
\* ones in small letters.
C5_BothSuppliedTrusted ==
    \A r \in Reqs :
        (Supplied(req[r].source_lang) /\ Supplied(req[r].target_lang)) =>
            /\ detectCalls[r] = 0 /\ detected_lang[r] = None
            /\ ~IsEcho(r)
            /\ pc[r] \in {"offload", "awaiting"} \/ Invoked(r) =>
                  /\ IsLowercased(req[r].source_lang, source_lang[r])
                  /\ IsLowercased(req[r].target_lang, target_lang[r])
            /\ Invoked(r) =>
                  /\ job[r].source_lang = source_lang[r]
                  /\ job[r].target_lang = target_lang[r]
            /\ IsSuccess(r) =>
                  /\ resp[r].source_lang = source_lang[r]
                  /\ resp[r].target_lang = target_lang[r]
            /\ (Ended(r) /\ HasHandle(r)) => Invoked(r)

\* A translation from a source given in capitals has been answered.
C5_Witness ==
    \E r \in Reqs :
        /\ req[r].source_lang = <<"E", "N">> /\ req[r].target_lang = <<"F", "R">>
        /\ IsSuccess(r)
        /\ resp[r].source_lang = EN /\ resp[r].target_lang = <<"f", "r">>

\* C6: no languages given and the text detected as English: the text is
\* echoed with both languages "en", duration 0 and equal timestamps, and the
\* model is not called.
C6_EnglishPassthrough ==
    \A r \in Reqs :
        ( /\ Absent(req[r].source_lang) /\ Absent(req[r].target_lang)
          /\ detected_lang[r] = EN )
        => /\ Ended(r) /\ IsEcho(r)
           /\ resp[r].translation = req[r].text
           /\ resp[r].source_lang = EN /\ resp[r].target_lang = EN
           /\ resp[r].duration_seconds = 0
           /\ resp[r].started_at = resp[r].finished_at
           /\ resp[r].model = model_name[r]
           /\ ~Invoked(r) /\ translateCalls[r] = 0

C6_Witness ==
    \E r \in Reqs :
        /\ req[r].source_lang = <<>> /\ req[r].target_lang = None
        /\ detected_lang[r] = EN /\ detectCalls[r] = 1
        /\ IsEcho(r)

\* C7: no languages given and the text detected as another language than
\* English: the source is the detector's code in small letters, the target
\* is "en", and the model is called with that pair.
C7_DetectedToEnglish ==
    \A r \in Reqs :
        ( /\ Absent(req[r].source_lang) /\ Absent(req[r].target_lang)
          /\ detected_lang[r] \notin {None, EN, LangDetectException} )
        => /\ IsLowercased(detected_lang[r], source_lang[r])
           /\ target_lang[r] = EN
           /\ ~IsEcho(r)
           /\ pc[r] \in {"offload", "awaiting", "done"}
           /\ pc[r] \in {"awaiting", "done"} => Invoked(r)
           /\ Invoked(r) =>
                 /\ job[r].source_lang = source_lang[r]
                 /\ job[r].target_lang = EN
                 /\ job[r].text = req[r].text
                 /\ job[r].handle = chosen_model[r]
           /\ IsSuccess(r) =>
                 resp[r].source_lang = source_lang[r] /\ resp[r].target_lang = EN

C7_Witness ==
    \E r \in Reqs :
        /\ Absent(req[r].source_lang) /\ Absent(req[r].target_lang)
        /\ detected_lang[r] = <<"f", "r">>
        /\ job[r].state = "running"
        /\ job[r].source_lang = <<"f", "r">> /\ job[r].target_lang = EN

\* C8 as stated: no source given and detection fails: the source falls back
\* to "en" and the request is answered as a passthrough.
C8_Original ==
    \A r \in Reqs :
        (Absent(req[r].source_lang) /\ detected_lang[r] = LangDetectException)
            => /\ source_lang[r] = EN
               /\ Ended(r) /\ IsEcho(r)
               /\ translateCalls[r] = 0

\* C8 as amended: no source given and detection fails: nothing is raised and
\* the source falls back to "en"; without a target the request is answered
\* as a passthrough, with a target the model is called with source "en" and
\* that target.
C8_DetectionFallback ==
    \A r \in Reqs :
        (Absent(req[r].source_lang) /\ detected_lang[r] = LangDetectException)
            => /\ source_lang[r] = EN
               /\ Ended(r) => resp[r].kind \in {"ok", "TranslationFailed"}
               /\ Absent(req[r].target_lang) =>
                     /\ Ended(r) /\ IsEcho(r)
                     /\ resp[r].translation = req[r].text
                     /\ resp[r].source_lang = EN /\ resp[r].target_lang = EN
                     /\ ~Invoked(r) /\ translateCalls[r] = 0
               /\ Supplied(req[r].target_lang) =>
                     /\ ~IsEcho(r)
                     /\ IsLowercased(req[r].target_lang, target_lang[r])
                     /\ pc[r] \in {"offload", "awaiting", "done"}
                     /\ pc[r] \in {"awaiting", "done"} => Invoked(r)
                     /\ Invoked(r) =>
                           /\ job[r].source_lang = EN
                           /\ job[r].target_lang = target_lang[r]

\* Both cases of a failed detection: echoed without a target, translated
\* from "en" with one.
C8_Witness ==
    /\ detected_lang[1] = LangDetectException /\ detected_lang[2] = LangDetectException
    /\ Absent(req[1].target_lang) /\ IsEcho(1)
    /\ req[2].target_lang = <<"F", "R">> /\ IsSuccess(2) /\ ~IsEcho(2)

\* C9: a raise of the model call ends the request in TranslationFailed (500)
\* with the cause; no envelope is produced for it and the model is called at
\* most once per request.
C9_FailureWrapped ==
    \A r \in Reqs :
        /\ translateCalls[r] <= 1
        /\ translateCalls[r] = 1 <=> job[r].state \in {"running", "returned", "raised"}
        /\ job[r].state = "raised" =>
              /\ pc[r] \in {"awaiting", "done"}
              /\ ~IsSuccess(r)
              /\ Ended(r) =>
                    /\ resp[r].status = 500
                    /\ resp[r].kind = "TranslationFailed"
                    /\ resp[r].detail = job[r].result
        /\ (Ended(r) /\ resp[r].kind = "TranslationFailed") => job[r].state = "raised"

C9_Witness ==
    \E r \in Reqs :
        /\ job[r].state = "raised" /\ Ended(r)
        /\ resp[r].kind = "TranslationFailed" /\ resp[r].detail \in Causes

\* C10: a cached handle is never replaced or reloaded, and a get_model call
\* that finds the identifier cached returns that handle without loading.
C10_CachedHandleReused ==
    [][ /\ \A n \in DOMAIN cache :
              /\ n \in DOMAIN cache' /\ cache'[n] = cache[n]
              /\ LoadCount(loads', n) = LoadCount(loads, n)
        /\ \A n \in MODEL_NAMES : LoadCount(loads', n) <= 1
        /\ \A r \in Reqs :
              ( /\ pc[r] = "start" /\ pc'[r] # "start"
                /\ model_name'[r] \in DOMAIN cache )
              => /\ pc'[r] = "resolve"
                 /\ chosen_model'[r] = cache[model_name'[r]] ]_vars

\* A request that arrived after the load uses the handle the first request
\* loaded, after that request has ended.
C10_Witness ==
    /\ pc[1] = "done"
    /\ HasHandle(2)
    /\ chosen_model[2].loaded_by = 1
    /\ chosen_model[2] = Cached(model_name[2])

\* C11: the keys of the cache are supported identifiers; the cache starts
\* empty, and no step removes a key or changes the handle stored under it.
C11_CacheOnlyGrows ==
    /\ cache = << >>
    /\ [][ /\ DOMAIN cache \subseteq DOMAIN cache'
           /\ DOMAIN cache' \subseteq MODEL_NAMES
           /\ \A n \in DOMAIN cache : cache'[n] = cache[n] ]_vars

\* Both supported identifiers are loaded, each by its own request.
C11_Witness ==
    /\ DOMAIN cache = MODEL_NAMES
    /\ \E n \in DOMAIN cache : cache[n].loaded_by = 1
    /\ \E n \in DOMAIN cache : cache[n].loaded_by = 2

\* The order of the supported identifiers as strings.
StrictlyBefore == { << <<"m2m_100_1.2B">>, <<"m2m_100_418M">> >> }

\* seq lists the members of S once each, in ascending order.
IsSortedListOf(seq, S) ==
    /\ Len(seq) = Cardinality(S)
    /\ {seq[i] : i \in 1..Len(seq)} = S
    /\ \A i, j \in 1..Len(seq) : i < j => <<seq[i], seq[j]>> \in StrictlyBefore

\* C12: GET / answers status "ok", the default identifier and the sorted
\* keys of the cache as it is, and the step that answers changes nothing of
\* the cache, the loads or any request.
C12_RootReportsCache ==
    /\ [](root_resp # NoRoot =>
            /\ root_resp.status = "ok"
            /\ root_resp.default_model = <<"m2m_100_418M">>
            /\ IsSortedListOf(root_resp.loaded_models, DOMAIN cache))
    /\ [][root_resp' # NoRoot =>
            /\ cache' = cache /\ loads' = loads
            /\ pc' = pc /\ job' = job /\ resp' = resp
            /\ chosen_model' = chosen_model ]_vars

\* GET / is answered with both identifiers while a translation is running.
C12_Witness ==
    /\ root_resp # NoRoot
    /\ Len(root_resp.loaded_models) = 2
    /\ \E r \in Reqs : job[r].state = "running"

\* C13: a request whose translation is queued or running in the thread pool
\* does not hold the event loop, and every other request that has a handler
\* step left can take it unless a third request is running on the loop.
C13_TranslationDoesNotStall ==
    \A q \in Reqs :
        (pc[q] = "awaiting" /\ job[q].state \in {"queued", "running"}) =>
            /\ loop # q
            /\ \A r \in Reqs \ {q} :
                  ( /\ pc[r] \in {"start", "load", "resolve", "offload"}
                    /\ \A o \in Reqs \ {q, r} : loop # o )
                  => ENABLED LoopStep(r)

\* While the first request's translation is still running, the second one
\* has looked up the handle the first had loaded, detected its language and
\* been answered.
C13_Witness ==
    /\ pc[1] = "awaiting" /\ job[1].state = "running"
    /\ chosen_model[2].loaded_by = 1
    /\ detectCalls[2] = 1
    /\ Ended(2) /\ IsEcho(2)

\* C14: the model is resolved before the languages: a request that has
\* detected, resolved a language or called the model holds a handle, and a
\* request answered UnknownModel has made no detection call and no model
\* call and has left the cache as it was.
C14_ModelResolvedFirst ==
    /\ [](\A r \in Reqs :
            /\ ( \/ detectCalls[r] > 0 \/ detected_lang[r] # None
                 \/ source_lang[r] # None \/ target_lang[r] # None
                 \/ Invoked(r) \/ translateCalls[r] > 0 )
               => HasHandle(r)
            /\ resp[r].kind = "UnknownModel" =>
                  /\ detectCalls[r] = 0 /\ detected_lang[r] = None
                  /\ source_lang[r] = None /\ target_lang[r] = None
                  /\ ~Invoked(r) /\ translateCalls[r] = 0
                  /\ ~HasHandle(r)
                  /\ \A m \in loads : m.loaded_by # r)
    /\ [][\A r \in Reqs :
            (resp[r] = NoResp /\ resp'[r].kind = "UnknownModel")
                => cache' = cache /\ loads' = loads]_vars

\* A request with no source language is rejected for its identifier while the
\* cache holds the other request's handle.
C14_Witness ==
    \E r \in Reqs :
        /\ resp[r].kind = "UnknownModel"
        /\ Absent(req[r].source_lang)
        /\ DOMAIN cache # {}
        /\ \E q \in Reqs : job[q].state = "running"

\* The positions between a handler's first step and its suspension or end.
Running == {"load", "resolve", "offload"}

\* C15: a handler that has started keeps the event loop until it hands its
\* translation to the thread pool or answers; meanwhile no handler step of
\* another request and no GET / runs, and nobody else writes the cache.
\* Arrivals and the worker threads of other requests are no handler steps.
C15_SuspendsOnlyAtOffload ==
    /\ [](\A r \in Reqs : pc[r] \in Running <=> loop = r)
    /\ [][\A r \in Reqs : loop = r =>
            /\ loop' \in {r, 0}
            /\ loop' = 0 => pc'[r] \in {"awaiting", "done"}
            /\ (pc'[r] = "awaiting" /\ loop' = 0) => job'[r].state = "queued"
            /\ root_resp' = NoRoot
            /\ \A q \in Reqs \ {r} :
                  /\ pc'[q] = pc[q] \/ (pc[q] = "idle" /\ pc'[q] = "start")
                  /\ resp'[q] = resp[q]
                  /\ model_name'[q] = model_name[q]
                  /\ chosen_model'[q] = chosen_model[q]
                  /\ source_lang'[q] = source_lang[q]
                  /\ target_lang'[q] = target_lang[q]
                  /\ detectCalls'[q] = detectCalls[q]
            /\ \A n \in DOMAIN cache' :
                  n \in DOMAIN cache \/ cache'[n].loaded_by = r ]_vars

\* The first request is between its cache miss and its insert while the
\* second one has arrived and a third party's step would be possible.
C15_Witness ==
    /\ pc[1] = "load" /\ loop = 1
    /\ pc[2] = "start"
    /\ ModelNameOf(req[2].model) = model_name[1]


\* C16: the calls into one model handle are serialized: no two requests are
\* inside the translate call of the same handle at the same time.
C16_CallsSerializedPerHandle ==
    \A r, q \in Reqs :
        ( /\ r # q
          /\ job[r].state = "running"
          /\ job[q].state = "running" )
        => chosen_model[r] # chosen_model[q]


\* The request has passed lines 68-91.
Resolved(r) == pc[r] \in {"offload", "awaiting"} \/ (pc[r] = "done" /\ HasHandle(r))

EffectiveSource(r) ==
    IF Supplied(req[r].source_lang) THEN Lower(req[r].source_lang) ELSE source_lang[r]

\* C18 as stated, for the requests whose model load did not raise: one that
\* has ended was echoed exactly when it named no target and its effective
\* source is English, and was translated by the model in every other case.
C18_Original ==
    \A r \in Reqs :
        (Ended(r) /\ resp[r].kind # "InternalServerError") =>
            /\ IsEcho(r) <=> (Absent(req[r].target_lang) /\ EffectiveSource(r) = <<"e", "n">>)
            /\ ~IsEcho(r) => translateCalls[r] >= 1

\* C18: among the requests that get_model gave a handle, those without
\* target whose source, supplied or detected or fallen back to, is English
\* are echoed without any model call, and all others, explicit English to
\* English included, call the model's translate once; a request without
\* handle is neither echoed nor translated.
C18_PassthroughIff ==
    \A r \in Reqs :
        /\ IsEcho(r) =>
              /\ Ended(r) /\ HasHandle(r)
              /\ Absent(req[r].target_lang)
              /\ source_lang[r] = <<"e", "n">>
              /\ ~Invoked(r) /\ translateCalls[r] = 0
              /\ resp[r].translation = req[r].text
        /\ Resolved(r) =>
              /\ Supplied(req[r].source_lang) =>
                    IsLowercased(req[r].source_lang, source_lang[r])
              /\ Absent(req[r].source_lang) =>
                    source_lang[r] = IF detected_lang[r] = LangDetectException
                                        THEN <<"e", "n">> ELSE detected_lang[r]
              /\ IF Absent(req[r].target_lang) /\ source_lang[r] = <<"e", "n">>
                    THEN IsEcho(r)
                    ELSE /\ pc[r] = "offload" \/ Invoked(r)
                         /\ Ended(r) => translateCalls[r] = 1
        /\ ~HasHandle(r) => ~IsEcho(r) /\ ~Invoked(r) /\ translateCalls[r] = 0

\* The first request asked for English to English by name and was
\* translated by the model; the second named nothing, its detection failed
\* and it was echoed.
C18_Witness ==
    /\ req[1].source_lang = <<"E", "N">> /\ req[1].target_lang = <<"E", "n">>
    /\ Ended(1) /\ IsSuccess(1) /\ ~IsEcho(1) /\ translateCalls[1] = 1
    /\ resp[1].source_lang = <<"e", "n">> /\ resp[1].target_lang = <<"e", "n">>
    /\ detected_lang[2] = LangDetectException /\ IsEcho(2)


\* The identifier the request asks for is one of MODEL_NAMES.
NamesValidModel(r) == req[r] # NoReq /\ ModelNameOf(req[r].model) \in MODEL_NAMES

\* The request's model load raised: it ended in the server error of the
\* constructor and never constructed a handle.
LoadRaised(r) ==
    /\ resp[r] = Unhandled("EasyNMT")
    /\ ~HasHandle(r)
    /\ \A m \in loads : m.loaded_by # r

C20_FailedLoadInsertsNothing ==
    /\ [](\A n \in DOMAIN cache : cache[n] \in loads /\ cache[n].name = n)
    /\ [](\A r \in Reqs : pc[r] = "load" =>
              /\ model_name[r] \notin DOMAIN cache
              /\ ENABLED LoadModel(r))
    /\ [][\A r \in Reqs :
            /\ (resp[r] = NoResp /\ resp'[r] = Unhandled("EasyNMT")) =>
                  /\ pc[r] = "load"
                  /\ cache' = cache
                  /\ loads' = loads
                  /\ chosen_model' = chosen_model
            /\ ( /\ pc[r] = "start" /\ pc'[r] # "start"
                 /\ ModelNameOf(req[r].model) \in MODEL_NAMES
                 /\ ModelNameOf(req[r].model) \notin DOMAIN cache )
               => pc'[r] = "load" ]_vars

\* The first request's load raised, and the second request has asked for
\* the same identifier, found no entry, and loaded the model itself.
C20_Witness ==
    /\ LoadRaised(1)
    /\ model_name[2] = model_name[1]
    /\ chosen_model[2].loaded_by = 2
    /\ Cached(model_name[1]) = chosen_model[2]
====
